---- MODULE Spec2Model ----
(***************************************************************************)
(* Math Bubbles: the game component App (src/src/App.tsx).                 *)
(*                                                                         *)
(* The component's React state is the model's state.  Every event the      *)
(* component handles (a button, a bubble tap, the 100 ms interval, a       *)
(* setTimeout callback) is one action; React commits the state updates of  *)
(* an event and runs the effects before the next event is handled, so an   *)
(* action is the handler together with the effects it triggers.            *)
(*                                                                         *)
(* Time is counted in periods of the countdown interval (100 ms):          *)
(* timeLeft is held in tenths of a second and a setTimeout of 1000 ms      *)
(* (500 ms) is due after 10 (5) periods.  Events that happen between two   *)
(* interval ticks are actions that happen between two Advance steps.       *)
(***************************************************************************)
EXTENDS Integers, Sequences, FiniteSets

\* ------------------------------------------------------------------ bounds
\* The player's taps and Stop presses in one run of the model.
MaxInputs == 6
\* No step of the model takes wrongAttempts above MaxWrong.
MaxWrong == 2
\* Validation alone is checked on every batch with values in
\* -MaxAbsValue..MaxAbsValue and every selection of ids in 1..PoolIds (the
\* ids above NumEquations match no equation).
MaxAbsValue == 1
PoolIds == 4
\* The value triples a generated batch may carry (display order).
BatchValues == {<<2, 1, 1>>, <<1, 3, 2>>}

\* --------------------------------------------------------- program constants
\* useState(15) / setTimeLeft(15), in tenths of a second.
RoundTime == 150
\* return prev - 0.1, in tenths of a second.
TickStep == 1
\* Math.floor(timeLeft) works on seconds: tenths per second.
TenthsPerSecond == 10
\* setTimeout(..., 1000) of handleTimeUp, in interval periods.
TimeUpDelay == 10
\* setTimeout(..., 1000) of the correct branch, in interval periods.
AdvanceDelay == 10
\* setTimeout(..., 500) of the wrong branch, in interval periods.
WrongDelay == 5
\* setTimeout(..., 500) of the tour effect, in interval periods.
TourDelay == 5
\* newSelected.length === 3
SelectionSize == 3
\* level * 10
LevelBonus == 10
\* One batch holds three equations (one bubble each).
NumEquations == 3

VARIABLES
    isPlaying,       \* useState(false)
    level,           \* useState(1)
    score,           \* useState(0)
    timeLeft,        \* useState(15), in tenths of a second
    equations,       \* useState<Equation[]>([])
    selectedIds,     \* useState<string[]>([])
    gameOver,        \* useState(false)
    wrongAttempts,   \* useState(0)
    feedbackStatus,  \* useState('neutral')
    isTourActive,    \* useState(false)
    hasSeenTour,     \* localStorage item 'hasSeenTour'
    driverActive,    \* driverObj.current is driving the tour
    timerOn,         \* the setInterval of the timer effect is live
    timeouts,        \* pending setTimeout callbacks, in the order they were set
    inputs           \* taps and Stop presses counted against MaxInputs

vars == <<isPlaying, level, score, timeLeft, equations, selectedIds, gameOver,
          wrongAttempts, feedbackStatus, isTourActive, hasSeenTour,
          driverActive, timerOn, timeouts, inputs>>

\* ------------------------------------------------------------ pure helpers
\* Mutant of Without: drops the last selected id, whichever was tapped.
WithoutLast(s, id) == SubSeq(s, 1, Len(s) - 1)

\* Array.prototype.filter(selectedId => selectedId !== id)
RECURSIVE Without(_, _)
Without(s, id) ==
    IF s = <<>> THEN <<>>
    ELSE IF Head(s) = id THEN Without(Tail(s), id)
    ELSE <<Head(s)>> \o Without(Tail(s), id)

\* Mutant of Includes: only the id selected last is found.
IncludesLast(s, id) == s # <<>> /\ s[Len(s)] = id

\* selectedIds.includes(id)
Includes(s, id) == \E i \in 1..Len(s) : s[i] = id

\* equations.find(e => e.id === id)?.value || 0
ValueOf(eqs, id) ==
    IF \E i \in 1..Len(eqs) : eqs[i].id = id
    THEN LET first == CHOOSE i \in 1..Len(eqs) :
                          /\ eqs[i].id = id
                          /\ \A j \in 1..(i - 1) : eqs[j].id # id
         IN eqs[first].value
    ELSE 0

\* selected.map(id => ...)
SelectedValues(selected, eqs) ==
    [i \in 1..Len(selected) |-> ValueOf(eqs, selected[i])]

\* Mutant of IsCorrect: ties are rejected.
IsCorrectStrict(selected, eqs) ==
    LET v == SelectedValues(selected, eqs)
    IN Len(v) >= 3 /\ v[1] < v[2] /\ v[2] < v[3]

\* selectedValues[0] <= selectedValues[1] && selectedValues[1] <= selectedValues[2]
\* (a comparison with the undefined element of a shorter array is false)
IsCorrect(selected, eqs) ==
    LET v == SelectedValues(selected, eqs)
    IN Len(v) >= 3 /\ v[1] <= v[2] /\ v[2] <= v[3]

\* Math.floor(timeLeft)
FloorSeconds(t) == t \div TenthsPerSecond

\* Mutant of ScoreAfter: the time left is a penalty.
ScoreAfterPenalty(prev, lvl, t) == prev + (lvl * LevelBonus) - FloorSeconds(t)

\* Mutant of ScoreAfter: the time bonus is rounded to the nearest second.
ScoreAfterRounded(prev, lvl, t) ==
    prev + (lvl * LevelBonus) + ((t + 5) \div TenthsPerSecond)

\* prev + (level * 10) + Math.floor(timeLeft)
ScoreAfter(prev, lvl, t) == prev + (lvl * LevelBonus) + FloorSeconds(t)

\* Mutant of AtFloor: the countdown is stopped one tick late.
AtFloorLate(prev) == prev < 0

\* prev <= 0.1.  The countdown is 15 - 0.1 - 0.1 - ... in IEEE doubles: after
\* 149 subtractions it is 0.10000000000003656, above 0.1, and after 150 it is
\* 3.655e-14.  The rounding error is positive after every subtraction, so the
\* test first succeeds at the value that is nominally 0 tenths.
AtFloor(prev) == prev < TickStep

\* generateEquations(currentLevel): the batches a call may return.
GenerateEquations(currentLevel) ==
    { [i \in 1..NumEquations |->
          [id |-> i, value |-> v[i], level |-> currentLevel]] : v \in BatchValues }

\* A pending setTimeout callback: what it does, the level its closure
\* captured, and the interval periods left before it is due.  stale is
\* history, not program state: it records that the round which set the
\* callback has been replaced by a later startLevel.  old is history too: the
\* callback was set in a game that a later startGame has replaced.
Timeout(kind, lvl, rem) ==
    [kind |-> kind, lvl |-> lvl, rem |-> rem, stale |-> FALSE, old |-> FALSE]

\* The callbacks ts after a startLevel: those of the replaced round are kept
\* (nothing clears them) and are stale from now on.
Superseded(ts) ==
    [i \in 1..Len(ts) |->
        IF ts[i].kind = "tour" THEN ts[i] ELSE [ts[i] EXCEPT !.stale = TRUE]]

\* The callbacks ts after a startGame: those of the game before are kept
\* as well, stale and old from now on.
Abandoned(ts) ==
    [i \in 1..Len(ts) |->
        IF ts[i].kind = "tour" THEN ts[i]
        ELSE [ts[i] EXCEPT !.stale = TRUE, !.old = TRUE]]

\* ----------------------------------------------------------------- timers
Due == {i \in 1..Len(timeouts) : timeouts[i].rem = 0}

\* Timers of equal deadline run in the order they were set.
FirstDue == CHOOSE i \in Due : \A j \in Due : i <= j

RemoveAt(s, i) == [j \in 1..(Len(s) - 1) |-> IF j < i THEN s[j] ELSE s[j + 1]]

DueKind(kind) == Due # {} /\ timeouts[FirstDue].kind = kind

\* clearTimeout(timer) of the tour effect's cleanup
ClearTour(ts) == SelectSeq(ts, LAMBDA t : t.kind # "tour")

\* -------------------------------------------------------------- operations
\* startLevel(currentLevel)
StartLevel(currentLevel) ==
    /\ equations' \in GenerateEquations(currentLevel)
    /\ selectedIds' = <<>>
    /\ timeLeft' = RoundTime
    /\ feedbackStatus' = "neutral"

\* The timer effect.  When one of its dependencies changed in the commit
\* (generateEquations returns a new array on every call, so startLevel always
\* changes equations), the cleanup clears the interval and the effect body
\* sets a new one unless !isPlaying || gameOver || isTourActive.
TimerEffect(depsChanged) ==
    timerOn' = IF depsChanged
               THEN isPlaying' /\ ~gameOver' /\ ~isTourActive'
               ELSE timerOn

\* The tour effect, applied to the pending callbacks ts.  When isTourActive
\* or isPlaying changed, the cleanup clears its timeout and the body sets a
\* new one if isTourActive && isPlaying.
TourEffect(ts) ==
    IF isTourActive' # isTourActive \/ isPlaying' # isPlaying
    THEN IF isTourActive' /\ isPlaying'
         THEN Append(ClearTour(ts), Timeout("tour", 0, TourDelay))
         ELSE ClearTour(ts)
    ELSE ts

\* Mutant of StartGame: the miss counter is carried into the new game.
StartGameKeepsMisses ==
    /\ ~isPlaying \/ gameOver
    /\ isPlaying' = TRUE
    /\ gameOver' = FALSE
    /\ score' = 0
    /\ level' = 1
    /\ StartLevel(1)
    /\ isTourActive' = IF ~hasSeenTour THEN TRUE ELSE isTourActive
    /\ timeouts' = TourEffect(Abandoned(timeouts))
    /\ TimerEffect(TRUE)
    /\ UNCHANGED <<wrongAttempts, hasSeenTour, driverActive, inputs>>

\* startGame: the Start Game button of the start screen, or Play Again of
\* the Game Over overlay.
StartGame ==
    /\ ~isPlaying \/ gameOver
    /\ isPlaying' = TRUE
    /\ gameOver' = FALSE
    /\ score' = 0
    /\ level' = 1
    /\ wrongAttempts' = 0
    /\ StartLevel(1)
    /\ isTourActive' = IF ~hasSeenTour THEN TRUE ELSE isTourActive
    /\ timeouts' = TourEffect(Abandoned(timeouts))
    /\ TimerEffect(TRUE)
    /\ UNCHANGED <<hasSeenTour, driverActive, inputs>>

\* startTour, run by the tour effect's timeout
StartTour ==
    /\ DueKind("tour")
    /\ driverActive' = TRUE
    /\ timeouts' = RemoveAt(timeouts, FirstDue)
    /\ UNCHANGED <<isPlaying, level, score, timeLeft, equations, selectedIds,
                   gameOver, wrongAttempts, feedbackStatus, isTourActive,
                   hasSeenTour, timerOn, inputs>>

\* onDestroyStarted: destroy() and endTour()
EndTour ==
    /\ driverActive
    /\ driverActive' = FALSE
    /\ isTourActive' = FALSE
    /\ hasSeenTour' = TRUE
    /\ UNCHANGED <<isPlaying, level, score, timeLeft, equations, selectedIds,
                   gameOver, wrongAttempts, feedbackStatus, inputs>>
    /\ timeouts' = TourEffect(timeouts)
    /\ TimerEffect(isTourActive' # isTourActive)

\* handleStopGame: the Stop button, rendered while isPlaying
StopGame ==
    /\ isPlaying
    /\ inputs < MaxInputs
    /\ inputs' = inputs + 1
    /\ gameOver' = TRUE
    /\ UNCHANGED <<isPlaying, level, score, timeLeft, equations, selectedIds,
                   wrongAttempts, feedbackStatus, isTourActive, hasSeenTour,
                   driverActive, timeouts>>
    /\ TimerEffect(gameOver' # gameOver)

\* handleTimeUp, called from the interval's updater; level is the level of
\* the render whose effect set the interval (level is a dependency, so it is
\* the current one).
HandleTimeUp(ts) ==
    /\ wrongAttempts' = wrongAttempts + 1
    /\ feedbackStatus' = "wrong"
    /\ timeouts' = Append(ts, Timeout("restart", level, TimeUpDelay))

\* Mutant of Advance: a missed round ends the game.
AdvanceEndsGame ==
    /\ Due = {}
    /\ LET aged == [i \in 1..Len(timeouts) |->
                       [timeouts[i] EXCEPT !.rem = timeouts[i].rem - 1]]
       IN IF timerOn
          THEN IF AtFloor(timeLeft)
               THEN /\ timeLeft' = 0
                    /\ HandleTimeUp(aged)
                    /\ timerOn' = FALSE
                    /\ gameOver' = TRUE
               ELSE /\ timeLeft' = timeLeft - TickStep
                    /\ timeouts' = aged
                    /\ UNCHANGED <<wrongAttempts, feedbackStatus, timerOn, gameOver>>
          ELSE /\ timeouts' = aged
               /\ UNCHANGED <<timeLeft, wrongAttempts, feedbackStatus, timerOn,
                              gameOver>>
    /\ wrongAttempts' <= MaxWrong
    /\ UNCHANGED <<isPlaying, level, score, equations, selectedIds,
                   isTourActive, hasSeenTour, driverActive, inputs>>

\* One interval period passes: every pending timeout is one period closer,
\* and the interval callback runs if the interval is live.  A timeout that is
\* due runs before more time passes.  The setTimeLeft updater, and with it
\* handleTimeUp, runs once per tick.
Advance ==
    /\ Due = {}
    /\ LET aged == [i \in 1..Len(timeouts) |->
                       [timeouts[i] EXCEPT !.rem = timeouts[i].rem - 1]]
       IN IF timerOn
          THEN IF AtFloor(timeLeft)
               THEN /\ timeLeft' = 0
                    /\ HandleTimeUp(aged)
                    /\ timerOn' = FALSE        \* clearInterval(timer)
               ELSE /\ timeLeft' = timeLeft - TickStep
                    /\ timeouts' = aged
                    /\ UNCHANGED <<wrongAttempts, feedbackStatus, timerOn>>
          ELSE /\ timeouts' = aged
               /\ UNCHANGED <<timeLeft, wrongAttempts, feedbackStatus, timerOn>>
    /\ wrongAttempts' <= MaxWrong
    /\ UNCHANGED <<isPlaying, level, score, equations, selectedIds, gameOver,
                   isTourActive, hasSeenTour, driverActive, inputs>>

\* validateSelection(selected)
ValidateSelection(selected) ==
    IF IsCorrect(selected, equations)
    THEN /\ feedbackStatus' = "correct"
         /\ score' = ScoreAfter(score, level, timeLeft)
         /\ timeouts' = Append(timeouts, Timeout("advance", level, AdvanceDelay))
         /\ UNCHANGED wrongAttempts
    ELSE /\ feedbackStatus' = "wrong"
         /\ wrongAttempts' = wrongAttempts + 1
         /\ timeouts' = Append(timeouts, Timeout("reset", 0, WrongDelay))
         /\ UNCHANGED score

\* Mutant of SelectionComplete: validates from the second selection on.
SelectionCompleteEarly(newSelected) == Len(newSelected) >= SelectionSize - 1

\* newSelected.length === 3
SelectionComplete(newSelected) == Len(newSelected) = SelectionSize

\* handleBubbleClick(id): a tap on the bubble of one of the equations shown
HandleBubbleClick(id) ==
    /\ isPlaying
    /\ inputs < MaxInputs
    /\ inputs' = inputs + 1
    /\ \E i \in 1..Len(equations) : equations[i].id = id
    /\ IF gameOver \/ feedbackStatus # "neutral" \/ isTourActive
       THEN UNCHANGED <<selectedIds, feedbackStatus, score, wrongAttempts, timeouts>>
       ELSE IF Includes(selectedIds, id)
       THEN /\ selectedIds' = Without(selectedIds, id)
            /\ UNCHANGED <<feedbackStatus, score, wrongAttempts, timeouts>>
       ELSE LET newSelected == Append(selectedIds, id)
            IN /\ selectedIds' = newSelected
               /\ IF SelectionComplete(newSelected)
                  THEN ValidateSelection(newSelected)
                  ELSE UNCHANGED <<feedbackStatus, score, wrongAttempts, timeouts>>
    /\ wrongAttempts' <= MaxWrong
    /\ UNCHANGED <<isPlaying, level, timeLeft, equations, gameOver,
                   isTourActive, hasSeenTour, driverActive, timerOn>>

\* The timeout of the correct branch: setLevel(prev => prev + 1) and
\* startLevel(level + 1), level being the one the closure captured.
LevelAdvance ==
    /\ DueKind("advance")
    /\ level' = level + 1
    /\ StartLevel(timeouts[FirstDue].lvl + 1)
    /\ timeouts' = Superseded(RemoveAt(timeouts, FirstDue))
    /\ UNCHANGED <<isPlaying, score, gameOver, wrongAttempts, isTourActive,
                   hasSeenTour, driverActive, inputs>>
    /\ TimerEffect(TRUE)

\* Mutant of TimeoutRestart: the restarted round does not re-run the timer
\* effect.
TimeoutRestartUnarmed ==
    /\ DueKind("restart")
    /\ StartLevel(timeouts[FirstDue].lvl)
    /\ timeouts' = Superseded(RemoveAt(timeouts, FirstDue))
    /\ UNCHANGED <<isPlaying, level, score, gameOver, wrongAttempts,
                   isTourActive, hasSeenTour, driverActive, inputs>>
    /\ TimerEffect(FALSE)

\* The timeout of handleTimeUp: startLevel(level), level being the one the
\* closure captured.
TimeoutRestart ==
    /\ DueKind("restart")
    /\ StartLevel(timeouts[FirstDue].lvl)
    /\ timeouts' = Superseded(RemoveAt(timeouts, FirstDue))
    /\ UNCHANGED <<isPlaying, level, score, gameOver, wrongAttempts,
                   isTourActive, hasSeenTour, driverActive, inputs>>
    /\ TimerEffect(TRUE)

\* Mutant of FeedbackReset: the reset also clears the selection.
FeedbackResetClears ==
    /\ DueKind("reset")
    /\ feedbackStatus' = "neutral"
    /\ selectedIds' = <<>>
    /\ timeouts' = RemoveAt(timeouts, FirstDue)
    /\ UNCHANGED <<isPlaying, level, score, timeLeft, equations,
                   gameOver, wrongAttempts, isTourActive, hasSeenTour,
                   driverActive, timerOn, inputs>>

\* The timeout of the wrong branch: setFeedbackStatus('neutral')
FeedbackReset ==
    /\ DueKind("reset")
    /\ feedbackStatus' = "neutral"
    /\ timeouts' = RemoveAt(timeouts, FirstDue)
    /\ UNCHANGED <<isPlaying, level, score, timeLeft, equations, selectedIds,
                   gameOver, wrongAttempts, isTourActive, hasSeenTour,
                   driverActive, timerOn, inputs>>

BubbleTap == \E id \in 1..NumEquations : HandleBubbleClick(id)

\* The state after the component's first render.
Init ==
    /\ isPlaying = FALSE
    /\ level = 1
    /\ score = 0
    /\ timeLeft = RoundTime
    /\ equations = <<>>
    /\ selectedIds = <<>>
    /\ gameOver = FALSE
    /\ wrongAttempts = 0
    /\ feedbackStatus = "neutral"
    /\ isTourActive = FALSE
    /\ hasSeenTour \in BOOLEAN
    /\ driverActive = FALSE
    /\ timerOn = FALSE
    /\ timeouts = <<>>
    /\ inputs = 0

Next ==
    \/ StartGame
    \/ StartTour
    \/ EndTour
    \/ StopGame
    \/ Advance
    \/ BubbleTap
    \/ LevelAdvance
    \/ TimeoutRestart
    \/ FeedbackReset

Spec == Init /\ [][Next]_vars

\* ------------------------------------------------- validation on its own
\* validateSelection applied to any batch and any three selected ids.
AnyBatch ==
    { [i \in 1..NumEquations |-> [id |-> i, value |-> v[i], level |-> 1]] :
          v \in [1..NumEquations -> (0 - MaxAbsValue)..MaxAbsValue] }

ValidateInit ==
    /\ isPlaying = TRUE
    /\ level = 1
    /\ score = 0
    /\ timeLeft = RoundTime
    /\ equations \in AnyBatch
    /\ selectedIds \in [1..SelectionSize -> 1..PoolIds]
    /\ gameOver = FALSE
    /\ wrongAttempts = 0
    /\ feedbackStatus = "neutral"
    /\ isTourActive = FALSE
    /\ hasSeenTour = TRUE
    /\ driverActive = FALSE
    /\ timerOn = TRUE
    /\ timeouts = <<>>
    /\ inputs = 0

Validate ==
    /\ feedbackStatus = "neutral"
    /\ ValidateSelection(selectedIds)
    /\ UNCHANGED <<isPlaying, level, timeLeft, equations, selectedIds, gameOver,
                   isTourActive, hasSeenTour, driverActive, timerOn, inputs>>

ValidateNext == Validate

SpecValidate == ValidateInit /\ [][ValidateNext]_vars

\* ------------------------------------------------------------------ claims
\* A step in which a pending setTimeout callback runs.
CallbackRuns == LevelAdvance \/ TimeoutRestart \/ FeedbackReset

\* The countdown of the round has expired and the restart that handleTimeUp
\* scheduled has not run yet.
RoundExpired ==
    /\ isPlaying
    /\ timeLeft = 0
    /\ \E i \in 1..Len(timeouts) :
           timeouts[i].kind = "restart" /\ ~timeouts[i].stale

\* C1: once the game is stopped, and until the next startGame, gameOver stays
\* true and level keeps the value it had at stopGame, also when a correct
\* validation's level-advance was still pending at stopGame.
C1_StopBlocksLevelAdvance ==
    [][(gameOver /\ ~StartGame) => (gameOver' /\ level' = level)]_vars

\* C2: between a stopGame and the next startGame no step (tick, tap, pending
\* callback) changes timeLeft, equations, selectedIds, feedbackStatus, score
\* or wrongAttempts.
C2_StopFreezesRound ==
    [][(gameOver /\ ~StartGame) =>
          UNCHANGED <<timeLeft, equations, selectedIds, feedbackStatus,
                      score, wrongAttempts>>]_vars

\* C3: a callback whose round has been replaced (by startGame in particular)
\* changes nothing of the current state when it runs: level, equations,
\* selectedIds, timeLeft and feedbackStatus are as before.
C3_StaleCallbackInert ==
    [][(CallbackRuns /\ timeouts[FirstDue].stale) =>
          UNCHANGED <<level, equations, selectedIds, timeLeft,
                      feedbackStatus>>]_vars

\* C4: a tap while the countdown has expired and the timeout restart is
\* still pending leaves selectedIds, score, wrongAttempts and feedbackStatus
\* unchanged.
C4_NoTapAfterExpiry ==
    [][(BubbleTap /\ RoundExpired) =>
          UNCHANGED <<selectedIds, score, wrongAttempts, feedbackStatus>>]_vars

\* The interval callback found the countdown at its floor: handleTimeUp ran.
TimerExpired == Advance /\ Len(timeouts') > Len(timeouts)

\* C5: the timer expires only at the countdown floor while playing and not
\* over; the expiry adds exactly 1 to wrongAttempts, sets feedbackStatus to
\* wrong and leaves level and score alone; the restart it schedules puts up a
\* batch generated for the level that is current when it runs.
C5_TimerExpiredRestartsSameLevel ==
    [][/\ TimerExpired =>
            /\ isPlaying /\ ~gameOver /\ timeLeft <= 0
            /\ wrongAttempts' = wrongAttempts + 1
            /\ feedbackStatus' = "wrong"
            /\ UNCHANGED <<level, score>>
       /\ TimeoutRestart =>
            /\ \A i \in 1..Len(equations') : equations'[i].level = level'
            /\ Len(equations') = NumEquations
            /\ UNCHANGED <<level, score>>]_vars

\* The value the claim gives the i-th selected id: the value of the
\* equation with that id, 0 when no equation has it.
ClaimedValue(i) ==
    LET match == {k \in 1..Len(equations) : equations[k].id = selectedIds[i]}
    IN IF match = {} THEN 0 ELSE equations[CHOOSE k \in match : TRUE].value

\* C6: validation reports correct if and only if v0 <= v1 <= v2, vi being the
\* value of the i-th id in selection order and 0 for an id no equation has;
\* ties are correct.
C6_CorrectIffNonDecreasing ==
    feedbackStatus # "neutral" =>
        (feedbackStatus = "correct" <=>
            (ClaimedValue(1) <= ClaimedValue(2) /\ ClaimedValue(2) <= ClaimedValue(3)))

\* A selection validated correct whose first id matches no equation (0),
\* followed by a tie with it, picked against display order.
C6_Witness ==
    /\ feedbackStatus = "correct"
    /\ selectedIds = <<PoolIds, 3, 1>>
    /\ equations[3].value = 0
    /\ equations[1].value = 1
    /\ equations[2].value = 0 - 1

\* A step in which validateSelection found the selection correct.
CorrectValidation == feedbackStatus # "correct" /\ feedbackStatus' = "correct"

\* C7: a correct validation at level L with t left adds exactly
\* L*10 + floor(t) to score, and score changes in no other step but
\* startGame, so the delta is applied once.
C7_ScoreDelta ==
    [][/\ CorrectValidation =>
            score' = score + level * 10 + (timeLeft \div 10)
       /\ score' # score => (CorrectValidation \/ StartGame)]_vars

\* The second correct validation of a game, at level 2 with 7.4 s left,
\* after a first one with 15 s left: 25 + (20 + 7).
C7_Witness ==
    /\ feedbackStatus = "correct"
    /\ level = 2
    /\ timeLeft = 74
    /\ score = 52

\* A step in which validateSelection found the selection wrong.
WrongValidation == BubbleTap /\ feedbackStatus = "neutral" /\ feedbackStatus' = "wrong"

\* C8: a wrong validation adds exactly 1 to wrongAttempts and leaves score,
\* level, equations and timeLeft alone, selectedIds being the 3 chosen ids in
\* the order chosen; the delayed reset of feedbackStatus to neutral changes
\* nothing else, and no round is started by either.
C8_WrongValidationFrame ==
    [][/\ WrongValidation =>
            /\ wrongAttempts' = wrongAttempts + 1
            /\ UNCHANGED <<score, level, equations, timeLeft>>
            /\ Len(selectedIds') = 3
            /\ SubSeq(selectedIds', 1, 2) = selectedIds
       /\ FeedbackReset =>
            /\ feedbackStatus' = "neutral"
            /\ UNCHANGED <<score, level, equations, selectedIds, timeLeft,
                           wrongAttempts>>]_vars

\* The reset has run after a wrong validation: the three ids are still
\* selected, in the wrong order they were chosen in.
C8_Witness ==
    /\ feedbackStatus = "neutral"
    /\ wrongAttempts = 1
    /\ Len(selectedIds) = 3
    /\ ~IsCorrect(selectedIds, equations)
    /\ timeouts = <<>>
    /\ ~gameOver

\* The tap on id is accepted by the gate of handleBubbleClick.
Accepted == ~gameOver /\ feedbackStatus = "neutral" /\ ~isTourActive

\* C9: an accepted tap on a selected id removes exactly that id and keeps
\* the order of the others, at any selection count, and leaves score,
\* wrongAttempts, level and feedbackStatus alone.
C9_ToggleOff ==
    [][\A id \in 1..NumEquations :
          (HandleBubbleClick(id) /\ Accepted /\ Includes(selectedIds, id)) =>
              /\ selectedIds' = SelectSeq(selectedIds, LAMBDA x : x # id)
              /\ Len(selectedIds') = Len(selectedIds) - 1
              /\ UNCHANGED <<score, wrongAttempts, level, feedbackStatus>>]_vars

\* After a wrong validation of <<1, 2, 3>> the middle id was tapped again.
C9_Witness ==
    /\ selectedIds = <<1, 3>>
    /\ wrongAttempts = 1
    /\ feedbackStatus = "neutral"
    /\ inputs = 4
    /\ ~gameOver

\* C10: a tap validates only when it appends an id and brings selectedIds
\* to exactly 3 distinct ids; a tap that leaves fewer than 3 selected leaves
\* feedbackStatus, score and wrongAttempts alone (feedbackStatus neutral if
\* the tap was accepted), whatever timeLeft is.
C10_ValidationNeedsThree ==
    [][BubbleTap =>
          /\ Len(selectedIds') < 3 =>
                /\ UNCHANGED <<feedbackStatus, score, wrongAttempts>>
                /\ Accepted => feedbackStatus' = "neutral"
          /\ (feedbackStatus' # feedbackStatus \/ score' # score
                  \/ wrongAttempts' # wrongAttempts) =>
                /\ Len(selectedIds) = 2
                /\ Len(selectedIds') = 3
                /\ SubSeq(selectedIds', 1, 2) = selectedIds
                /\ Cardinality({selectedIds'[i] : i \in 1..3}) = 3]_vars

\* Two ids are selected with under a second left and nothing was validated.
C10_Witness ==
    /\ Len(selectedIds) = 2
    /\ timeLeft = 5
    /\ timerOn
    /\ feedbackStatus = "neutral"
    /\ inputs = 2
    /\ score = 0
    /\ wrongAttempts = 0

\* ------------------------------------------------------ callbacks do run
\* A callback that is due runs, and interval periods keep passing: the
\* browser's event loop starves no timer.  The player's taps and button
\* presses are under no such obligation.
TimersRun ==
    /\ WF_vars(Advance)
    /\ WF_vars(StartTour)
    /\ WF_vars(LevelAdvance)
    /\ WF_vars(TimeoutRestart)
    /\ WF_vars(FeedbackReset)

\* A game in its second round: both rounds were solved at once (25 and 35
\* points), the tour was seen before, and the second round's level-advance
\* is a second away.  Five more inputs are followed from here.
SecondRoundSolved ==
    /\ isPlaying = TRUE
    /\ level = 2
    /\ score = 60
    /\ timeLeft = RoundTime
    /\ equations \in GenerateEquations(2)
    /\ selectedIds \in {s \in [1..NumEquations -> 1..NumEquations] :
                          /\ \A i, j \in 1..NumEquations : i # j => s[i] # s[j]
                          /\ IsCorrect(s, equations)}
    /\ gameOver = FALSE
    /\ wrongAttempts = 0
    /\ feedbackStatus = "correct"
    /\ isTourActive = FALSE
    /\ hasSeenTour = TRUE
    /\ driverActive = FALSE
    /\ timerOn = TRUE
    /\ timeouts = <<Timeout("advance", 2, AdvanceDelay)>>
    /\ inputs = MaxInputs - 5

\* The operations open to a player who has seen the tour.
NextAfterTour ==
    \/ StartGame
    \/ StopGame
    \/ Advance
    \/ BubbleTap
    \/ LevelAdvance
    \/ TimeoutRestart
    \/ FeedbackReset

SpecSecondRound ==
    SecondRoundSolved /\ [][NextAfterTour]_vars /\ TimersRun

\* The start screen, with three inputs left to follow.
StartScreen ==
    /\ isPlaying = FALSE
    /\ level = 1
    /\ score = 0
    /\ timeLeft = RoundTime
    /\ equations = <<>>
    /\ selectedIds = <<>>
    /\ gameOver = FALSE
    /\ wrongAttempts = 0
    /\ feedbackStatus = "neutral"
    /\ isTourActive = FALSE
    /\ hasSeenTour \in BOOLEAN
    /\ driverActive = FALSE
    /\ timerOn = FALSE
    /\ timeouts = <<>>
    /\ inputs = MaxInputs - 3

SpecFewInputs == StartScreen /\ [][Next]_vars /\ TimersRun

\* A step that starts a game: the start screen is left, or the Game Over
\* overlay is closed.
GameStarts == (~isPlaying /\ isPlaying') \/ (gameOver /\ ~gameOver')

\* C11: whatever the state before, the state right after startGame has
\* isPlaying, not gameOver, score 0, level 1, wrongAttempts 0, timeLeft 15,
\* no selection, neutral feedback and a batch of 3 equations for level 1.
C11_StartGameResets ==
    [][GameStarts =>
          /\ isPlaying' /\ ~gameOver'
          /\ score' = 0 /\ level' = 1 /\ wrongAttempts' = 0
          /\ timeLeft' = 150
          /\ selectedIds' = <<>>
          /\ feedbackStatus' = "neutral"
          /\ Len(equations') = 3
          /\ \A i \in 1..3 : equations'[i].level = 1
          /\ Cardinality({equations'[i].id : i \in 1..3}) = 3]_vars

\* A game was just started over a stopped one whose level-advance is still
\* pending.
C11_Witness ==
    /\ isPlaying /\ ~gameOver
    /\ score = 0 /\ level = 1 /\ wrongAttempts = 0
    /\ timeLeft = 150
    /\ Len(timeouts) = 1
    /\ timeouts[1].kind = "advance" /\ timeouts[1].old /\ timeouts[1].rem = 10
    /\ inputs = 4

\* The round that follows a correct validation at level lvl - 1 is in place.
NextRound(lvl) ==
    /\ level = lvl
    /\ Len(equations) = 3
    /\ \A i \in 1..3 : equations[i].level = lvl
    /\ selectedIds = <<>>
    /\ timeLeft = 150
    /\ feedbackStatus = "neutral"

\* The countdown is at its floor with MaxWrong misses counted: the next
\* expiry is beyond what is followed here.
MissesExhausted ==
    timerOn /\ AtFloor(timeLeft) /\ wrongAttempts >= MaxWrong /\ Due = {}

\* C12: after a correct validation at level L (here one made with no miss
\* on the counter), eventually level is L + 1 with a batch for level L + 1,
\* no selection, timeLeft 15 and neutral feedback, unless the game is
\* stopped before level has passed L + 1.
C12_CorrectLeadsToNextRound ==
    \A L \in 1..3 :
        (feedbackStatus = "correct" /\ level = L /\ wrongAttempts = 0 /\ ~gameOver)
            ~> \/ NextRound(L + 1)
               \/ gameOver /\ level <= L + 1
               \/ MissesExhausted

\* C13: within one game level changes only by +1, each time through the
\* level-advance of a correct validation of that game; no timeout, wrong
\* validation or other step changes it.
C13_LevelFollowsCorrectRounds ==
    [][level' # level =>
          \/ GameStarts
          \/ /\ level' = level + 1
             /\ LevelAdvance
             /\ ~timeouts[FirstDue].old]_vars

\* C14: score is a non-negative integer, and no step but startGame lowers
\* it.
C14_ScoreMonotone ==
    /\ [](score \in Nat)
    /\ [][score' < score => GameStarts]_vars

\* Two rounds were scored, the second with less time left, and the third
\* level is on.
C14_Witness == ~gameOver /\ score = 52 /\ level = 3 /\ feedbackStatus = "neutral"

\* The countdown was clamped by an expiry and no round has started since.
Clamped == isPlaying /\ timeLeft = 0 /\ ~timerOn

C16_SelectionWellFormed ==
    /\ Len(selectedIds) <= 3
    /\ \A i, j \in 1..Len(selectedIds) : i # j => selectedIds[i] # selectedIds[j]
    /\ \A i \in 1..Len(selectedIds) :
           \E k \in 1..Len(equations) : equations[k].id = selectedIds[i]

\* An id was selected, deselected and selected again after two others.
C16_Witness ==
    /\ selectedIds = <<2, 3, 1>>
    /\ inputs = 5
    /\ wrongAttempts = 0
    /\ feedbackStatus = "correct"

\* C17: gameOver becomes true only in a stopGame step and false only in a
\* startGame step; no step, at any wrongAttempts, clears isPlaying.
C17_GameOverOnlyByStop ==
    [][/\ (~gameOver /\ gameOver') => StopGame
       /\ (gameOver /\ ~gameOver') => StartGame
       /\ isPlaying => isPlaying']_vars

\* Two rounds were missed, one by timeout, and the game goes on.
C17_Witness ==
    /\ isPlaying /\ ~gameOver
    /\ wrongAttempts >= 2
    /\ timeLeft = 0
    /\ \E i \in 1..Len(timeouts) : timeouts[i].kind = "restart"

\* The game is on: playing, not stopped, no tour.
GameOn == isPlaying /\ ~gameOver /\ ~isTourActive

\* The countdown of a round of level lvl has expired; its restart is pending.
ExpiredAt(lvl) ==
    /\ GameOn /\ timeLeft = 0 /\ ~timerOn
    /\ \E i \in 1..Len(timeouts) :
           /\ timeouts[i].kind = "restart" /\ ~timeouts[i].stale
           /\ timeouts[i].lvl = lvl

\* A round of level lvl is on with a full countdown that is running.
RoundArmed(lvl) ==
    /\ GameOn /\ timerOn
    /\ timeLeft = 150
    /\ feedbackStatus = "neutral"
    /\ Len(equations) = 3
    /\ \A i \in 1..3 : equations[i].level = lvl

C19_CorrectRoundNotMissed ==
    [][(feedbackStatus = "correct" /\ ~GameStarts) =>
          (wrongAttempts' = wrongAttempts /\ ~TimerExpired)]_vars

\* C20: while the game is playing, the batch on screen was generated for
\* the current level.
C20_BatchMatchesLevel ==
    isPlaying => \A i \in 1..Len(equations) : equations[i].level = level

====
